---- MODULE Spec2Model ----
(***************************************************************************)
(* Model of parse.py: three readers (Garmin pulse JSON, Garmin SpO2 JSON,   *)
(* O2Ring CSV), each resampling its records to a one-minute grid, the merge *)
(* of the three resampled frames over their common time range, and the run  *)
(* of main.                                                                  *)
(*                                                                           *)
(* Numbers are exact rationals <<num, den>> (den > 0, lowest terms); the     *)
(* missing marker NaN is the pair <<0, 0>>.  Timestamps are milliseconds     *)
(* on one clock (the local zone is taken to be at offset zero).  A          *)
(* DataFrame is [columns |-> sequence of column names, rows |-> sequence    *)
(* of [timestamp, cells]], rows in index order.                             *)
(***************************************************************************)
EXTENDS Integers, Sequences, FiniteSets, TLC

\* ---------------------------------------------------------------- bounds
\* Raw timestamps lie in minutes 0..MaxMinute.
MaxMinute == 3
\* A file handed to one reader on its own holds 1..MaxRecords records.
MaxRecords == 2

\* ------------------------------------------------------- program constants
MsPerSecond == 1000
SecondsPerMinute == 60
MinuteMs == SecondsPerMinute * MsPerSecond

\* ------------------------------------------------------------- arithmetic
Abs(n) == IF n < 0 THEN -n ELSE n

RECURSIVE Gcd(_, _)
Gcd(a, b) == IF b = 0 THEN a ELSE Gcd(b, a % b)

NaN == <<0, 0>>
IsNaN(v) == v[2] = 0

\* n/d in lowest terms with a positive denominator (d # 0).
Rat(n, d) ==
  LET g == Gcd(Abs(n), Abs(d))
      s == IF d < 0 THEN -1 ELSE 1
  IN  <<(s * n) \div g, (s * d) \div g>>

Num(n) == <<n, 1>>
RatAdd(x, y) == Rat(x[1] * y[2] + y[1] * x[2], x[2] * y[2])
RatSub(x, y) == Rat(x[1] * y[2] - y[1] * x[2], x[2] * y[2])
RatMul(x, y) == Rat(x[1] * y[1], x[2] * y[2])
RatDivInt(x, n) == Rat(x[1], x[2] * n)

RECURSIVE SeqSum(_)
SeqSum(s) == IF s = <<>> THEN Num(0) ELSE RatAdd(Head(s), SeqSum(Tail(s)))

RECURSIVE SetMin(_)
SetMin(S) ==
  LET x == CHOOSE y \in S : TRUE
  IN  IF S = {x} THEN x
      ELSE LET m == SetMin(S \ {x}) IN IF x < m THEN x ELSE m

RECURSIVE SetMax(_)
SetMax(S) ==
  LET x == CHOOSE y \in S : TRUE
  IN  IF S = {x} THEN x
      ELSE LET m == SetMax(S \ {x}) IN IF x > m THEN x ELSE m

RECURSIVE SortedTimes(_)
SortedTimes(S) ==
  IF S = {} THEN <<>>
  ELSE LET m == SetMin(S) IN <<m>> \o SortedTimes(S \ {m})

Range(s) == {s[i] : i \in 1..Len(s)}

\* ------------------------------------------------------------ DataFrames
Timestamps(df) == [i \in 1..Len(df.rows) |-> df.rows[i].timestamp]
IndexSet(df) == {df.rows[i].timestamp : i \in 1..Len(df.rows)}
IndexMin(df) == SetMin(IndexSet(df))
IndexMax(df) == SetMax(IndexSet(df))
ColumnSet(df) == Range(df.columns)

\* The cell of column c in the row of timestamp t (one such row exists).
Cell(df, t, c) ==
  LET i == CHOOSE j \in 1..Len(df.rows) : df.rows[j].timestamp = t
  IN  df.rows[i].cells[c]

\* Mutant: missing values counted as zeros.
MeanNaNAsZero(vals) ==
  IF vals = <<>> THEN NaN
  ELSE RatDivInt(SeqSum([i \in 1..Len(vals) |->
                           IF IsNaN(vals[i]) THEN Num(0) ELSE vals[i]]), Len(vals))

\* Series.mean(): the mean of the non-NaN values, NaN when there is none.
MeanSkipNaN(vals) ==
  LET known == SelectSeq(vals, LAMBDA v : ~IsNaN(v))
  IN  IF known = <<>> THEN NaN ELSE RatDivInt(SeqSum(known), Len(known))

\* Timestamp.floor('min').
FloorMinute(t) == (t \div MinuteMs) * MinuteMs

\* The values of column c in the rows of df that fall in the bucket of t.
BucketValues(df, t, c) ==
  LET inBucket == SelectSeq(df.rows, LAMBDA r : FloorMinute(r.timestamp) = t)
  IN  [i \in 1..Len(inBucket) |-> inBucket[i].cells[c]]

\* Mutant: a row only for the minutes that hold a record (a group-by).
ResampleMeanOccupiedOnly(df) ==
  LET occupied == SortedTimes({FloorMinute(df.rows[i].timestamp) : i \in 1..Len(df.rows)})
  IN  [columns |-> df.columns,
       rows |-> [i \in 1..Len(occupied) |->
          [timestamp |-> occupied[i],
           cells |-> [c \in ColumnSet(df) |->
                        MeanSkipNaN(BucketValues(df, occupied[i], c))]]]]

\* Mutant: each bucket labelled with its right edge.
ResampleMeanRightLabel(df) ==
  LET first == FloorMinute(IndexMin(df))
      last  == FloorMinute(IndexMax(df))
      n     == ((last - first) \div MinuteMs) + 1
  IN  [columns |-> df.columns,
       rows |-> [i \in 1..n |->
          LET t == first + (i - 1) * MinuteMs
          IN  [timestamp |-> t + MinuteMs,
               cells |-> [c \in ColumnSet(df) |->
                            MeanSkipNaN(BucketValues(df, t, c))]]]]

\* df.resample('min').mean() of a frame with at least one row: one row per
\* minute from the floored least to the floored greatest timestamp.
ResampleMean(df) ==
  LET first == FloorMinute(IndexMin(df))
      last  == FloorMinute(IndexMax(df))
      n     == ((last - first) \div MinuteMs) + 1
  IN  [columns |-> df.columns,
       rows |-> [i \in 1..n |->
          LET t == first + (i - 1) * MinuteMs
          IN  [timestamp |-> t,
               cells |-> [c \in ColumnSet(df) |->
                            MeanSkipNaN(BucketValues(df, t, c))]]]]

\* Mutant: a gap takes the last known value (method='pad').
InterpolatePadSeq(v) ==
  [i \in 1..Len(v) |->
     IF ~IsNaN(v[i]) THEN v[i]
     ELSE LET before == {j \in 1..(i - 1) : ~IsNaN(v[j])}
          IN  IF before = {} THEN NaN ELSE v[SetMax(before)]]

\* Series.interpolate(method='linear') on the values of one column: linear
\* in the row position, limit_direction 'forward', no limit_area.  A NaN
\* before the first known value stays; a NaN after the last known value
\* takes the last known value.
InterpolateLinearSeq(v) ==
  [i \in 1..Len(v) |->
     IF ~IsNaN(v[i]) THEN v[i]
     ELSE LET before == {j \in 1..(i - 1) : ~IsNaN(v[j])}
              after  == {j \in (i + 1)..Len(v) : ~IsNaN(v[j])}
          IN  IF before = {} THEN NaN
              ELSE LET p == SetMax(before)
                   IN  IF after = {} THEN v[p]
                       ELSE LET q == SetMin(after)
                            IN  RatAdd(v[p],
                                  RatMul(RatSub(v[q], v[p]), Rat(i - p, q - p)))]

\* DataFrame.interpolate(method='linear'): every column on its own.
InterpolateLinear(df) ==
  [columns |-> df.columns,
   rows |-> [i \in 1..Len(df.rows) |->
      [timestamp |-> df.rows[i].timestamp,
       cells |-> [c \in ColumnSet(df) |->
          InterpolateLinearSeq(
            [k \in 1..Len(df.rows) |-> df.rows[k].cells[c]])[i]]]]]

\* ------------------------------------------------------------ raw values
\* A JSON value: null, or a number n held as <<n>>.
JsonNull == <<>>
JsonNum(n) == <<n>>

\* The cell pandas holds for a JSON value of a numeric column: None is NaN.
\* (A column is taken to be numeric also when every value of it is null.)
ToFloat(j) == IF j = JsonNull THEN NaN ELSE Num(j[1])

Digits == <<"0", "1", "2", "3", "4", "5", "6", "7", "8", "9">>
DigitValue(ch) == (CHOOSE k \in 1..10 : Digits[k] = ch) - 1
IsDigit(ch) == \E k \in 1..10 : Digits[k] = ch

RECURSIVE DecimalValue(_)
DecimalValue(txt) ==
  IF txt = <<>> THEN 0
  ELSE 10 * DecimalValue(SubSeq(txt, 1, Len(txt) - 1)) + DigitValue(txt[Len(txt)])

\* pd.to_numeric(text, errors='coerce') on a cell of text (a sequence of
\* characters): the number a string of digits writes, NaN for anything else.
ToNumericCoerce(txt) ==
  IF txt # <<>> /\ \A k \in 1..Len(txt) : IsDigit(txt[k])
  THEN Num(DecimalValue(txt))
  ELSE NaN

\* datetime.fromtimestamp(startGMT / 1000.0): the instant startGMT
\* milliseconds after the epoch.
FromTimestamp(startGMT) == startGMT

\* datetime.strptime(s, "%Y-%m-%dT%H:%M:%S.%f"): s is held as its fields
\* [minute, second, millis], minute counting the minutes date, hour and
\* minute give.
StrpTime(s) == (s.minute * SecondsPerMinute + s.second) * MsPerSecond + s.millis

\* pd.to_datetime(s, format='%H:%M:%S %b %d %Y'): s is held as [minute, second].
ToDatetime(s) == (s.minute * SecondsPerMinute + s.second) * MsPerSecond

\* --------------------------------------------------------------- readers
PulseColumns == <<"heart_rate">>
Spo2Columns == <<"garmin_spo2", "garmin_confidence">>
O2ringColumns == <<"o2ring_spo2", "o2ring_pulse", "o2ring_motion">>
O2ringSourceColumn ==
  [o2ring_spo2 |-> "Oxygen Level", o2ring_pulse |-> "Pulse Rate",
   o2ring_motion |-> "Motion"]

\* The frame parse_garmin_pulse builds from the items of the file, indexed
\* by timestamp, before resampling.
PulseFrame(data) ==
  [columns |-> PulseColumns,
   rows |-> [i \in 1..Len(data) |->
      [timestamp |-> FromTimestamp(data[i].startGMT),
       cells |-> [c \in Range(PulseColumns) |-> ToFloat(data[i].value)]]]]

\* The frame parse_garmin_spo2 builds, before resampling.
Spo2Frame(data) ==
  [columns |-> Spo2Columns,
   rows |-> [i \in 1..Len(data) |->
      [timestamp |-> StrpTime(data[i].epochTimestamp),
       cells |-> [c \in Range(Spo2Columns) |->
          IF c = "garmin_spo2" THEN ToFloat(data[i].spo2Reading)
          ELSE ToFloat(data[i].readingConfidence)]]]]

\* new_df of parse_o2ring_csv: the three wanted columns, made numeric.
O2ringFrame(csv) ==
  [columns |-> O2ringColumns,
   rows |-> [i \in 1..Len(csv.rows) |->
      [timestamp |-> ToDatetime(csv.rows[i].Time),
       cells |-> [c \in Range(O2ringColumns) |->
          ToNumericCoerce(csv.rows[i].cells[O2ringSourceColumn[c]])]]]]

\* Mutant: the SpO2 reader gap-fills as the pulse reader does.
ParseGarminSpo2Interpolated(data) == InterpolateLinear(ResampleMean(Spo2Frame(data)))

\* What each reader returns for a file it can read.
ParseGarminPulse(data) == InterpolateLinear(ResampleMean(PulseFrame(data)))
ParseGarminSpo2(data) == ResampleMean(Spo2Frame(data))
ParseO2ringCsv(csv) == ResampleMean(O2ringFrame(csv))

\* ----------------------------------------------------------------- merge
\* df[a:b] on a sorted DatetimeIndex: the rows with a <= timestamp <= b.
SliceRows(df, a, b) ==
  [columns |-> df.columns,
   rows |-> SelectSeq(df.rows, LAMBDA r : a <= r.timestamp /\ r.timestamp <= b)]

\* pd.concat(frames, axis=1): the columns side by side over the union of
\* the indexes; a frame with no row at a timestamp gives NaN there.
ConcatColumns(a, b, c) ==
  LET index == SortedTimes(IndexSet(a) \cup IndexSet(b) \cup IndexSet(c))
      Owner(col) == IF col \in ColumnSet(a) THEN a
                    ELSE IF col \in ColumnSet(b) THEN b ELSE c
  IN  [columns |-> a.columns \o b.columns \o c.columns,
       rows |-> [i \in 1..Len(index) |->
          [timestamp |-> index[i],
           cells |-> [col \in ColumnSet(a) \cup ColumnSet(b) \cup ColumnSet(c) |->
              IF index[i] \in IndexSet(Owner(col))
              THEN Cell(Owner(col), index[i], col)
              ELSE NaN]]]]

\* Mutant: the window starts at the earliest first timestamp.
StartTimeEarliest(p, s, o) == SetMin({IndexMin(p), IndexMin(s), IndexMin(o)})

StartTime(p, s, o) == SetMax({IndexMin(p), IndexMin(s), IndexMin(o)})
EndTime(p, s, o) == SetMin({IndexMax(p), IndexMax(s), IndexMax(o)})

\* Mutant: the O2Ring frame is not trimmed.
MergeDataO2ringUntrimmed(p, s, o) ==
  ConcatColumns(SliceRows(p, StartTime(p, s, o), EndTime(p, s, o)),
                SliceRows(s, StartTime(p, s, o), EndTime(p, s, o)),
                o)

\* merge_data on three frames that each have a row.
MergeData(p, s, o) ==
  LET start_time == StartTime(p, s, o)
      end_time == EndTime(p, s, o)
  IN  ConcatColumns(SliceRows(p, start_time, end_time),
                    SliceRows(s, start_time, end_time),
                    SliceRows(o, start_time, end_time))

\* ----------------------------------------------------------------- files
Kinds == {"pulse", "spo2", "o2ring"}
Minutes == 0..MaxMinute

\* Whether the reader gets through the file: the JSON readers need every
\* item to carry its keys and set_index needs a record to make the
\* timestamp column; the CSV reader needs its four columns.
PulseReadable(data) ==
  /\ data # <<>>
  /\ \A i \in 1..Len(data) : {"startGMT", "value"} \subseteq DOMAIN data[i]
Spo2Readable(data) ==
  /\ data # <<>>
  /\ \A i \in 1..Len(data) :
       {"epochTimestamp", "spo2Reading", "readingConfidence"} \subseteq DOMAIN data[i]
O2ringReadable(csv) ==
  {"Time", "Oxygen Level", "Pulse Rate", "Motion"} \subseteq Range(csv.header)

O2ringHeader == <<"Time", "Oxygen Level", "Pulse Rate", "Motion">>
NoCsv == [header |-> <<>>, rows |-> <<>>]
NoFrame == [columns |-> <<>>, rows |-> <<>>]

VARIABLES
  pc,         \* where the run of main, or the call of one reader, stands
  dir,        \* the kinds of file the directory holds
  content,    \* the content of each file
  pulse_df, spo2_df, o2ring_df, merged_df,
  saved       \* the tables written by to_csv, in order

vars == <<pc, dir, content, pulse_df, spo2_df, o2ring_df, merged_df, saved>>

\* ---------------------------------------------------------------- inputs
SeqsUpTo(S, n) == UNION {[1..k -> S] : k \in 1..n}

\* Files for one reader on its own: records in any order, on and off the
\* minute, with and without a value.
PulseItems ==
  {[startGMT |-> m * MinuteMs + off, value |-> v] :
     m \in Minutes, off \in {0, 59999},
     v \in {JsonNull, JsonNum(60), JsonNum(70)}}
Spo2Items ==
  {[epochTimestamp |-> [minute |-> m, second |-> t[1], millis |-> t[2]],
    spo2Reading |-> r[1], readingConfidence |-> r[2]] :
     m \in Minutes, t \in {<<0, 0>>, <<59, 999>>},
     r \in {<<JsonNum(96), JsonNum(3)>>, <<JsonNum(91), JsonNull>>,
            <<JsonNull, JsonNum(2)>>}}
O2ringRows ==
  {[Time |-> [minute |-> m, second |-> sec],
    cells |-> [c \in Range(O2ringHeader) \ {"Time"} |->
       IF c = "Oxygen Level" THEN r[1] ELSE IF c = "Pulse Rate" THEN r[2] ELSE r[3]]] :
     m \in Minutes, sec \in {0, 59},
     r \in {<<<<"9", "7">>, <<"6", "1">>, <<"0">>>>,
            <<<<"9", "4">>, <<"5", "8">>, <<"1", "2">>>>,
            <<<<"-", "-">>, <<"6", "4">>, <<"-", "-">>>>}}

PulseFiles == SeqsUpTo(PulseItems, MaxRecords)
Spo2Files == SeqsUpTo(Spo2Items, MaxRecords)
O2ringFiles == {[header |-> O2ringHeader, rows |-> rs] : rs \in SeqsUpTo(O2ringRows, MaxRecords)}

\* Files for a run of main: no record, a record that lacks a key (a column),
\* or a record in each of two minutes a <= b.  (A CSV file with its four
\* columns and no row is not among them.)
Digit(n) == Digits[n + 1]
RunPulseItem(m, v) == [startGMT |-> m * MinuteMs + 5000, value |-> v]
RunSpo2Item(m) ==
  [epochTimestamp |-> [minute |-> m, second |-> 30, millis |-> 0],
   spo2Reading |-> JsonNum(90 + m), readingConfidence |-> JsonNum(m)]
RunO2ringRow(m) ==
  [Time |-> [minute |-> m, second |-> 4],
   cells |-> [c \in Range(O2ringHeader) \ {"Time"} |->
      IF c = "Oxygen Level" THEN <<"8", Digit(m)>>
      ELSE IF c = "Pulse Rate" THEN <<"5", Digit(m)>> ELSE <<Digit(m)>>]]
Spans == {ab \in Minutes \X Minutes : ab[1] <= ab[2]}

RunPulseFiles ==
  {<<>>, <<[startGMT |-> 5000]>>} \cup
  {<<RunPulseItem(ab[1], v), RunPulseItem(ab[2], w)>> :
     ab \in Spans, v \in {JsonNull, JsonNum(60)}, w \in {JsonNull, JsonNum(70)}}
RunSpo2Files ==
  {<<>>} \cup {<<RunSpo2Item(ab[1]), RunSpo2Item(ab[2])>> : ab \in Spans}
RunO2ringFiles ==
  {[header |-> <<"Time", "Oxygen Level", "Pulse Rate">>, rows |-> <<>>]} \cup
  {[header |-> O2ringHeader, rows |-> <<RunO2ringRow(ab[1]), RunO2ringRow(ab[2])>>] :
     ab \in Spans}

\* ------------------------------------------------------------ run of main
Init ==
  /\ pc = "find_files"
  /\ dir \in SUBSET Kinds
  /\ content \in [pulse : IF "pulse" \in dir THEN RunPulseFiles ELSE {<<>>},
                  spo2 : IF "spo2" \in dir THEN RunSpo2Files ELSE {<<>>},
                  o2ring : IF "o2ring" \in dir THEN RunO2ringFiles ELSE {NoCsv}]
  /\ pulse_df = NoFrame /\ spo2_df = NoFrame /\ o2ring_df = NoFrame
  /\ merged_df = NoFrame
  /\ saved = <<>>

\* Mutant: only the pulse file is looked for before parsing starts.
FindFilesPulseOnly ==
  /\ pc = "find_files" /\ "pulse" \in dir
  /\ pc' = "parse_garmin_pulse"
  /\ UNCHANGED <<dir, content, pulse_df, spo2_df, o2ring_df, merged_df, saved>>

\* find_files returns the three paths.
FindFiles ==
  /\ pc = "find_files" /\ dir = Kinds
  /\ pc' = "parse_garmin_pulse"
  /\ UNCHANGED <<dir, content, pulse_df, spo2_df, o2ring_df, merged_df, saved>>

\* A glob finds nothing, [0] raises IndexError, main prints and exits 1.
FindFilesIndexError ==
  /\ pc = "find_files" /\ dir # Kinds
  /\ pc' = "exit_1"
  /\ UNCHANGED <<dir, content, pulse_df, spo2_df, o2ring_df, merged_df, saved>>

MainParsePulse ==
  /\ pc = "parse_garmin_pulse" /\ PulseReadable(content.pulse)
  /\ pulse_df' = ParseGarminPulse(content.pulse)
  /\ pc' = "parse_garmin_spo2"
  /\ UNCHANGED <<dir, content, spo2_df, o2ring_df, merged_df, saved>>

\* The reader raises (KeyError); main does not catch it.
MainParsePulseRaises ==
  /\ pc = "parse_garmin_pulse" /\ ~PulseReadable(content.pulse)
  /\ pc' = "raised"
  /\ UNCHANGED <<dir, content, pulse_df, spo2_df, o2ring_df, merged_df, saved>>

MainParseSpo2 ==
  /\ pc = "parse_garmin_spo2" /\ Spo2Readable(content.spo2)
  /\ spo2_df' = ParseGarminSpo2(content.spo2)
  /\ pc' = "parse_o2ring_csv"
  /\ UNCHANGED <<dir, content, pulse_df, o2ring_df, merged_df, saved>>

MainParseSpo2Raises ==
  /\ pc = "parse_garmin_spo2" /\ ~Spo2Readable(content.spo2)
  /\ pc' = "raised"
  /\ UNCHANGED <<dir, content, pulse_df, spo2_df, o2ring_df, merged_df, saved>>

MainParseO2ring ==
  /\ pc = "parse_o2ring_csv" /\ O2ringReadable(content.o2ring)
  /\ o2ring_df' = ParseO2ringCsv(content.o2ring)
  /\ pc' = "merge_data"
  /\ UNCHANGED <<dir, content, pulse_df, spo2_df, merged_df, saved>>

MainParseO2ringRaises ==
  /\ pc = "parse_o2ring_csv" /\ ~O2ringReadable(content.o2ring)
  /\ pc' = "raised"
  /\ UNCHANGED <<dir, content, pulse_df, spo2_df, o2ring_df, merged_df, saved>>

\* Mutant: the pulse series is cut to the window first and gap-filled after.
MainMergeInterpolateAfterTrim ==
  /\ pc = "merge_data"
  /\ merged_df' =
       LET start_time == StartTime(pulse_df, spo2_df, o2ring_df)
           end_time == EndTime(pulse_df, spo2_df, o2ring_df)
       IN  ConcatColumns(
             InterpolateLinear(SliceRows(ResampleMean(PulseFrame(content.pulse)),
                                         start_time, end_time)),
             SliceRows(spo2_df, start_time, end_time),
             SliceRows(o2ring_df, start_time, end_time))
  /\ pc' = "to_csv"
  /\ UNCHANGED <<dir, content, pulse_df, spo2_df, o2ring_df, saved>>

MainMerge ==
  /\ pc = "merge_data"
  /\ merged_df' = MergeData(pulse_df, spo2_df, o2ring_df)
  /\ pc' = "to_csv"
  /\ UNCHANGED <<dir, content, pulse_df, spo2_df, o2ring_df, saved>>

\* merged_df.to_csv(output_path), taken as one step that writes the table.
MainSave ==
  /\ pc = "to_csv"
  /\ saved' = Append(saved, merged_df)
  /\ pc' = "done"
  /\ UNCHANGED <<dir, content, pulse_df, spo2_df, o2ring_df, merged_df>>

Next ==
  \/ FindFiles \/ FindFilesIndexError
  \/ MainParsePulse \/ MainParsePulseRaises
  \/ MainParseSpo2 \/ MainParseSpo2Raises
  \/ MainParseO2ring \/ MainParseO2ringRaises
  \/ MainMerge \/ MainSave

Spec == Init /\ [][Next]_vars

\* ------------------------------------------------- one reader on its own
InitReaders ==
  /\ pc = "call"
  /\ \E k \in Kinds :
       /\ dir = {k}
       /\ content \in [pulse : IF k = "pulse" THEN PulseFiles ELSE {<<>>},
                       spo2 : IF k = "spo2" THEN Spo2Files ELSE {<<>>},
                       o2ring : IF k = "o2ring" THEN O2ringFiles ELSE {NoCsv}]
  /\ pulse_df = NoFrame /\ spo2_df = NoFrame /\ o2ring_df = NoFrame
  /\ merged_df = NoFrame
  /\ saved = <<>>

CallParseGarminPulse ==
  /\ pc = "call" /\ dir = {"pulse"}
  /\ pulse_df' = ParseGarminPulse(content.pulse)
  /\ pc' = "returned"
  /\ UNCHANGED <<dir, content, spo2_df, o2ring_df, merged_df, saved>>

CallParseGarminSpo2 ==
  /\ pc = "call" /\ dir = {"spo2"}
  /\ spo2_df' = ParseGarminSpo2(content.spo2)
  /\ pc' = "returned"
  /\ UNCHANGED <<dir, content, pulse_df, o2ring_df, merged_df, saved>>

CallParseO2ringCsv ==
  /\ pc = "call" /\ dir = {"o2ring"}
  /\ o2ring_df' = ParseO2ringCsv(content.o2ring)
  /\ pc' = "returned"
  /\ UNCHANGED <<dir, content, pulse_df, spo2_df, merged_df, saved>>

NextReaders == CallParseGarminPulse \/ CallParseGarminSpo2 \/ CallParseO2ringCsv

SpecReaders == InitReaders /\ [][NextReaders]_vars

\* ================================================================ claims
\* What the claims read: the frame a reader builds from its file before
\* resampling, the frame it returned, and the records of a minute.
Returned(k) == pc = "returned" /\ dir = {k}
Merged == pc \in {"to_csv", "done"}
RawFrame(k) ==
  IF k = "pulse" THEN PulseFrame(content.pulse)
  ELSE IF k = "spo2" THEN Spo2Frame(content.spo2)
  ELSE O2ringFrame(content.o2ring)
ReaderDf(k) ==
  IF k = "pulse" THEN pulse_df ELSE IF k = "spo2" THEN spo2_df ELSE o2ring_df
\* The resampled frame before gap-fill: only the pulse reader fills gaps.
PreFill(k) == IF k = "pulse" THEN ResampleMean(RawFrame(k)) ELSE ReaderDf(k)
Least(S) == CHOOSE x \in S : \A y \in S : x <= y
Greatest(S) == CHOOSE x \in S : \A y \in S : x >= y
OnMinute(t) == t % MinuteMs = 0
\* Of the raw records raw, those whose timestamp lies in the minute that
\* starts at t, and those of them with a value for channel c.
RawIn(raw, t) ==
  {i \in 1..Len(raw) : t <= raw[i].timestamp /\ raw[i].timestamp < t + MinuteMs}
KnownRawIn(raw, t, c) == {i \in RawIn(raw, t) : ~IsNaN(raw[i].cells[c])}
GridTimes == {m * MinuteMs : m \in Minutes}

\* C1: the row timestamps of the merged table are exactly the minutes from
\* the latest first timestamp to the earliest last timestamp of the three
\* series, each once; when that interval is empty the table has no rows
\* (and the merge has still returned).
MergeIntersection ==
  Merged =>
    LET lo == Greatest({Least(IndexSet(pulse_df)), Least(IndexSet(spo2_df)),
                        Least(IndexSet(o2ring_df))})
        hi == Least({Greatest(IndexSet(pulse_df)), Greatest(IndexSet(spo2_df)),
                     Greatest(IndexSet(o2ring_df))})
    IN  /\ IndexSet(merged_df) = {t \in GridTimes : lo <= t /\ t <= hi}
        /\ Cardinality(IndexSet(merged_df)) = Len(merged_df.rows)
        /\ (lo > hi => merged_df.rows = <<>>)

\* C1 witness: a merged table of two or more rows over a window narrower
\* than the range of the pulse series and of the SpO2 series.
MergeIntersectionReached ==
  /\ pc = "done"
  /\ Len(merged_df.rows) >= 2
  /\ Len(merged_df.rows) < Len(pulse_df.rows)
  /\ Len(merged_df.rows) < Len(spo2_df.rows)
  /\ IndexMin(merged_df) > IndexMin(pulse_df)
  /\ IndexMax(merged_df) < IndexMax(spo2_df)

\* The empty case of C1: ranges that do not overlap, merged to no rows.
MergeEmptyWindowReached ==
  /\ pc = "done"
  /\ IndexMax(pulse_df) < IndexMin(o2ring_df)
  /\ merged_df.rows = <<>>

\* C2: a reader's series has one row per minute from the minute of the
\* earliest raw timestamp to the minute of the latest, consecutive rows one
\* minute apart, and a minute without a raw record has a row whose
\* channels are all missing before gap-fill.
GridComplete ==
  \A k \in Kinds : Returned(k) =>
    LET raw == RawFrame(k).rows
        times == {raw[i].timestamp : i \in 1..Len(raw)}
        df == ReaderDf(k)
        pre == PreFill(k)
        n == Len(df.rows)
    IN  /\ n >= 1
        /\ OnMinute(df.rows[1].timestamp)
        /\ df.rows[1].timestamp <= Least(times)
        /\ Least(times) < df.rows[1].timestamp + MinuteMs
        /\ df.rows[n].timestamp <= Greatest(times)
        /\ Greatest(times) < df.rows[n].timestamp + MinuteMs
        /\ \A i \in 1..(n - 1) :
             df.rows[i + 1].timestamp = df.rows[i].timestamp + MinuteMs
        /\ Timestamps(pre) = Timestamps(df)
        /\ \A i \in 1..n :
             RawIn(raw, df.rows[i].timestamp) = {} =>
               \A c \in ColumnSet(df) : IsNaN(pre.rows[i].cells[c])

\* C2 witness: a file whose records are out of order and leave a minute
\* without a record, read into a series that has a row for that minute.
GridCompleteReached ==
  \E k \in Kinds :
    /\ Returned(k)
    /\ LET raw == RawFrame(k).rows
           df == ReaderDf(k)
       IN  /\ Len(raw) = 2
           /\ raw[1].timestamp > raw[2].timestamp
           /\ ~OnMinute(raw[2].timestamp)
           /\ \E c \in ColumnSet(df) : ~IsNaN(df.rows[1].cells[c])
           /\ \E i \in 1..Len(df.rows) : RawIn(raw, df.rows[i].timestamp) = {}

\* The pulse series before gap-fill, as a sequence of bucket means.
PulseMeans == [i \in 1..Len(PreFill("pulse").rows) |->
                 PreFill("pulse").rows[i].cells["heart_rate"]]
HeartRate == [i \in 1..Len(pulse_df.rows) |-> pulse_df.rows[i].cells["heart_rate"]]

\* C3: in the series parse_garmin_pulse returns, a bucket before the first
\* bucket with a known mean, and a bucket after the last bucket with a
\* known mean, is missing.
NoFabricationOutsideKnownRange ==
  Returned("pulse") =>
    LET means == PulseMeans
        hr == HeartRate
    IN  \A i \in 1..Len(hr) :
          ((\A j \in 1..i : IsNaN(means[j])) \/ (\A j \in i..Len(hr) : IsNaN(means[j])))
            => IsNaN(hr[i])

\* The half of C3 the code keeps: a bucket before the first known mean is
\* missing.
LeadingBucketsStayMissing ==
  Returned("pulse") =>
    LET means == PulseMeans
        hr == HeartRate
    IN  \A i \in 1..Len(hr) : (\A j \in 1..i : IsNaN(means[j])) => IsNaN(hr[i])

\* What the code does after the last known mean: the bucket takes that mean.
TrailingBucketsTakeLastKnown ==
  Returned("pulse") =>
    LET means == PulseMeans
        hr == HeartRate
    IN  \A i \in 1..Len(hr) : \A p \in 1..(i - 1) :
          (~IsNaN(means[p]) /\ \A j \in (p + 1)..Len(hr) : IsNaN(means[j]))
            => hr[i] = means[p]

ExamplePulseFile ==
  <<[startGMT |-> 5000, value |-> JsonNum(60)],
    [startGMT |-> 100000, value |-> JsonNum(64)],
    [startGMT |-> 190000, value |-> JsonNum(70)]>>
ExamplePulseSeries ==
  [columns |-> <<"heart_rate">>,
   rows |-> <<[timestamp |-> 0, cells |-> [heart_rate |-> Num(60)]],
              [timestamp |-> 60000, cells |-> [heart_rate |-> Num(64)]],
              [timestamp |-> 120000, cells |-> [heart_rate |-> Num(67)]],
              [timestamp |-> 180000, cells |-> [heart_rate |-> Num(70)]]>>]
ExampleResampled == ParseGarminPulse(ExamplePulseFile)

\* C4: in the series parse_garmin_pulse returns, between a bucket t0 of
\* known mean a and a later bucket t1 of known mean b with no known mean
\* between them, the bucket t holds a + f * (b - a), f = (t - t0)/(t1 - t0);
\* and the records 00:05 -> 60, 01:40 -> 64, 03:10 -> 70 resample to
\* 60, 64, 67, 70.
InterpolationCorrect ==
  /\ ExampleResampled = ExamplePulseSeries
  /\ Returned("pulse") =>
       LET means == PulseMeans
           hr == HeartRate
           T == Timestamps(pulse_df)
       IN  \A i, k \in 1..Len(hr) :
             (/\ i < k /\ ~IsNaN(means[i]) /\ ~IsNaN(means[k])
              /\ \A j \in (i + 1)..(k - 1) : IsNaN(means[j]))
               => \A j \in (i + 1)..(k - 1) :
                    hr[j] = RatAdd(means[i],
                              RatMul(RatSub(means[k], means[i]),
                                     Rat(T[j] - T[i], T[k] - T[i])))

\* C4 witness: two known means that differ, two empty buckets between them,
\* the first of them filled with a value that is no whole number.
InterpolationReached ==
  /\ Returned("pulse")
  /\ Len(pulse_df.rows) = 4
  /\ LET means == PulseMeans
     IN  /\ ~IsNaN(means[1]) /\ IsNaN(means[2]) /\ IsNaN(means[3]) /\ ~IsNaN(means[4])
         /\ means[1] # means[4]
  /\ ~IsNaN(HeartRate[2])
  /\ HeartRate[2][2] = 3

SixColumns ==
  {"heart_rate", "garmin_spo2", "garmin_confidence",
   "o2ring_spo2", "o2ring_pulse", "o2ring_motion"}
OwnerOf(c) ==
  IF c = "heart_rate" THEN pulse_df
  ELSE IF c \in {"garmin_spo2", "garmin_confidence"} THEN spo2_df ELSE o2ring_df

\* C5: the merged table has exactly the six columns, also with no rows, and
\* every cell (t, c) is the cell the series that owns c holds at t.
DisjointColumnsPreserved ==
  Merged =>
    /\ ColumnSet(merged_df) = SixColumns
    /\ Len(merged_df.columns) = 6
    /\ \A i \in 1..Len(merged_df.rows) :
         /\ DOMAIN merged_df.rows[i].cells = SixColumns
         /\ \A c \in SixColumns :
              LET t == merged_df.rows[i].timestamp
                  own == OwnerOf(c)
              IN  \E j \in 1..Len(own.rows) :
                    /\ own.rows[j].timestamp = t
                    /\ merged_df.rows[i].cells[c] = own.rows[j].cells[c]

\* C5 witness: a merged table of three rows or more, with a row where the
\* SpO2 series is missing and the O2Ring series is not.
DisjointColumnsReached ==
  /\ pc = "done"
  /\ Len(merged_df.rows) >= 3
  /\ \E i \in 1..Len(merged_df.rows) :
       /\ IsNaN(merged_df.rows[i].cells["garmin_spo2"])
       /\ ~IsNaN(merged_df.rows[i].cells["o2ring_spo2"])
       /\ ~IsNaN(merged_df.rows[i].cells["heart_rate"])

\* The zero-row case of C5.
DisjointColumnsEmptyReached ==
  pc = "done" /\ merged_df.rows = <<>> /\ ColumnSet(merged_df) = SixColumns

\* Records already on the grid: every record on a minute boundary, one
\* record per minute, no minute skipped, no value missing.
Gridded(raw) ==
  LET times == {raw[i].timestamp : i \in 1..Len(raw)}
  IN  /\ \A i \in 1..Len(raw) : OnMinute(raw[i].timestamp)
      /\ \A i, j \in 1..Len(raw) : raw[i].timestamp = raw[j].timestamp => i = j
      /\ Greatest(times) - Least(times) = (Len(raw) - 1) * MinuteMs
      /\ \A i \in 1..Len(raw) : \A c \in DOMAIN raw[i].cells : ~IsNaN(raw[i].cells[c])
InTimeOrder(raw) ==
  \A i \in 1..(Len(raw) - 1) : raw[i].timestamp < raw[i + 1].timestamp

\* C6: a reader given a file already on the grid returns the timestamps
\* and the values of the file: a row per record, each with the record's
\* values (the very frame, when the records are in time order).
ResampleIdempotent ==
  \A k \in Kinds : Returned(k) =>
    LET raw == RawFrame(k).rows
        df == ReaderDf(k)
    IN  Gridded(raw) =>
          /\ Len(df.rows) = Len(raw)
          /\ \A i \in 1..Len(raw) : \E j \in 1..Len(df.rows) : df.rows[j] = raw[i]
          /\ InTimeOrder(raw) => df.rows = raw

\* C6 witness: a gridded file of two records with different values, read.
ResampleIdempotentReached ==
  \E k \in Kinds :
    /\ Returned(k)
    /\ LET raw == RawFrame(k).rows
       IN  /\ Gridded(raw) /\ InTimeOrder(raw)
           /\ Len(raw) = 2
           /\ raw[1].cells # raw[2].cells

StageOrder ==
  {<<"find_files", "parse_garmin_pulse">>,
   <<"parse_garmin_pulse", "parse_garmin_spo2">>,
   <<"parse_garmin_spo2", "parse_o2ring_csv">>,
   <<"parse_o2ring_csv", "merge_data">>,
   <<"merge_data", "to_csv">>,
   <<"to_csv", "done">>}
Aborts ==
  {<<"find_files", "exit_1">>, <<"parse_garmin_pulse", "raised">>,
   <<"parse_garmin_spo2", "raised">>, <<"parse_o2ring_csv", "raised">>}
\* The files a run has parsed when it stands at a place.
ParsedAt ==
  [parse_garmin_pulse |-> {}, parse_garmin_spo2 |-> {"pulse"},
   parse_o2ring_csv |-> {"pulse", "spo2"}, merge_data |-> Kinds,
   to_csv |-> Kinds, done |-> Kinds]
ParsedNow == {k \in Kinds : ReaderDf(k) # NoFrame}

\* C7: a run goes through discovery, the pulse parse, the SpO2 parse, the
\* O2Ring parse, the merge and the write in this order; with a file absent
\* it ends in discovery with nothing parsed; the table is written at most
\* once, after the three parses and the merge, and a run that fails has
\* written nothing.
RunOrder ==
  /\ [](/\ Len(saved) <= 1
        /\ (saved # <<>> =>
              /\ pc = "done" /\ ParsedNow = Kinds
              /\ saved[1] = merged_df
              /\ merged_df = MergeData(pulse_df, spo2_df, o2ring_df))
        /\ (dir # Kinds => pc \in {"find_files", "exit_1"} /\ ParsedNow = {})
        /\ (pc \in {"find_files", "exit_1"} => ParsedNow = {})
        /\ (pc \in DOMAIN ParsedAt => ParsedNow = ParsedAt[pc])
        /\ (pc \in {"exit_1", "raised"} => saved = <<>> /\ merged_df = NoFrame))
  /\ [][/\ <<pc, pc'>> \in StageOrder \cup Aborts
        /\ (saved' # saved => pc = "to_csv" /\ saved = <<>>)]_vars

\* C7 witness: a run that has written its table.
RunOrderReached ==
  pc = "done" /\ Len(saved) = 1 /\ saved[1].rows # <<>>

\* A run that failed in the last parse.
RunAbortedReached ==
  pc = "raised" /\ ParsedNow = {"pulse", "spo2"} /\ saved = <<>>

RECURSIVE SumCells(_, _, _)
SumCells(raw, S, c) ==
  IF S = {} THEN Num(0)
  ELSE LET i == CHOOSE x \in S : TRUE
       IN  RatAdd(raw[i].cells[c], SumCells(raw, S \ {i}, c))

\* C8: before gap-fill, the cell of a minute and a channel is the sum of
\* the non-missing raw values of the channel in that minute divided by
\* their number, and missing when there is none; the pulse reader's
\* gap-fill leaves a known mean as it is.
BucketIsMeanOfKnownValues ==
  \A k \in Kinds : Returned(k) =>
    LET raw == RawFrame(k).rows
        df == ReaderDf(k)
        pre == PreFill(k)
    IN  \A i \in 1..Len(pre.rows) : \A c \in ColumnSet(pre) :
          LET known == KnownRawIn(raw, pre.rows[i].timestamp, c)
              cell == pre.rows[i].cells[c]
          IN  /\ known = {} => IsNaN(cell)
              /\ known # {} =>
                   /\ cell = RatDivInt(SumCells(raw, known, c), Cardinality(known))
                   /\ df.rows[i].cells[c] = cell

\* C8 witness: a minute with two records, where one channel has a value
\* in one record only and another channel has two values whose mean is no
\* whole number.
BucketIsMeanReached ==
  \E k \in Kinds :
    /\ Returned(k)
    /\ LET raw == RawFrame(k).rows
           df == ReaderDf(k)
       IN  /\ Len(df.rows) = 1
           /\ Len(raw) = 2
           /\ \E c, d \in ColumnSet(df) :
                /\ Cardinality(KnownRawIn(raw, df.rows[1].timestamp, c)) = 1
                /\ Cardinality(KnownRawIn(raw, df.rows[1].timestamp, d)) = 2
                /\ ~IsNaN(df.rows[1].cells[c])
                /\ df.rows[1].cells[d][2] = 2

\* A minute whose records all lack a value for a channel, the text "--"
\* among them: the cell is missing.
NullOnlyBucketReached ==
  /\ Returned("o2ring")
  /\ \E i \in 1..Len(o2ring_df.rows) :
       /\ RawIn(RawFrame("o2ring").rows, o2ring_df.rows[i].timestamp) # {}
       /\ IsNaN(o2ring_df.rows[i].cells["o2ring_spo2"])

\* C9: in the series of the SpO2 reader and of the O2Ring reader a cell is
\* non-missing exactly when a raw record of that minute has a non-missing
\* value for the channel.
NoFillWithoutGapFill ==
  \A k \in {"spo2", "o2ring"} : Returned(k) =>
    LET raw == RawFrame(k).rows
        df == ReaderDf(k)
    IN  \A i \in 1..Len(df.rows) : \A c \in ColumnSet(df) :
          ~IsNaN(df.rows[i].cells[c]) <=> KnownRawIn(raw, df.rows[i].timestamp, c) # {}

\* C9 witness: a series of three rows or more whose first and last rows
\* hold a value in a channel and whose rows between them do not.
NoFillReached ==
  \E k \in {"spo2", "o2ring"} :
    /\ Returned(k)
    /\ LET df == ReaderDf(k)
       IN  /\ Len(df.rows) >= 3
           /\ \E c \in ColumnSet(df) :
                /\ ~IsNaN(df.rows[1].cells[c])
                /\ ~IsNaN(df.rows[Len(df.rows)].cells[c])
                /\ \A i \in 2..(Len(df.rows) - 1) : IsNaN(df.rows[i].cells[c])

\* C9 in the merged table: a cell of a channel without gap-fill is
\* non-missing exactly when a record of its file lies in that minute with
\* a value for the channel.
NoFillInMergedTable ==
  Merged =>
    LET spo2 == RawFrame("spo2").rows
        o2ring == RawFrame("o2ring").rows
    IN  \A i \in 1..Len(merged_df.rows) : \A c \in SixColumns \ {"heart_rate"} :
          ~IsNaN(merged_df.rows[i].cells[c])
            <=> KnownRawIn(IF c \in Range(Spo2Columns) THEN spo2 ELSE o2ring,
                           merged_df.rows[i].timestamp, c) # {}

\* The pulse series gap-filled over its own range and then cut to the
\* window, and the pulse series cut to the window first and gap-filled after.
InterpolatedThenTrimmed ==
  SliceRows(InterpolateLinear(ResampleMean(PulseFrame(content.pulse))),
            StartTime(pulse_df, spo2_df, o2ring_df),
            EndTime(pulse_df, spo2_df, o2ring_df))
TrimmedThenInterpolated ==
  InterpolateLinear(
    SliceRows(ResampleMean(PulseFrame(content.pulse)),
              StartTime(pulse_df, spo2_df, o2ring_df),
              EndTime(pulse_df, spo2_df, o2ring_df)))

\* C10: the heart_rate column of the merged table is the pulse series
\* gap-filled over its whole range and then cut to the window.
InterpolateBeforeIntersect ==
  Merged =>
    LET whole == InterpolatedThenTrimmed
    IN  /\ Timestamps(merged_df) = Timestamps(whole)
        /\ \A i \in 1..Len(merged_df.rows) :
             merged_df.rows[i].cells["heart_rate"] = whole.rows[i].cells["heart_rate"]

\* C10 witness: a merged heart_rate value computed from a known value
\* before the window, where gap-filling the cut series leaves it missing.
InterpolateBeforeIntersectReached ==
  /\ pc = "done"
  /\ LET cut == TrimmedThenInterpolated
     IN  \E i \in 1..Len(merged_df.rows) :
           /\ ~IsNaN(merged_df.rows[i].cells["heart_rate"])
           /\ IsNaN(cut.rows[i].cells["heart_rate"])
           /\ \E j \in (i + 1)..Len(merged_df.rows) :
                /\ ~IsNaN(cut.rows[j].cells["heart_rate"])
                /\ merged_df.rows[j].cells["heart_rate"] # merged_df.rows[i].cells["heart_rate"]

====
